---- MODULE Spec2Model ----
(***************************************************************************)
(* example_basic_bfv (native/examples/1_basic_bfv.cpp) and the part of the *)
(* BFV library it drives: Encryptor, Decryptor, Evaluator, KeyGenerator.   *)
(*                                                                         *)
(* The library is not part of the example file; its operations are written *)
(* from the design text and from the example's own comments.  A ciphertext *)
(* is kept as what the example can observe of it:                          *)
(*   size   the number of polynomials,                                     *)
(*   msg    the plaintext value its lineage computes (mod plain_modulus),  *)
(*   noise  the bit length of its noise,                                   *)
(*   err    the rounding error decryption makes on it: 0 while the noise   *)
(*          budget is positive, anything the arithmetic yields once the    *)
(*          budget is 0.                                                   *)
(*                                                                         *)
(* Spec      is the example program, statement by statement.               *)
(* EvalSpec  is a caller applying library operations in any order.         *)
(***************************************************************************)
EXTENDS Integers, Sequences, FiniteSets, TLC

VARIABLES
    parms,               \* EncryptionParameters / SEALContext
    relin_keys,          \* number of relinearization keys generated (0: none yet)
    \* ---- locals of example_basic_bfv
    pc,
    x,
    plain_x,
    encrypted_x,
    decrypted_x,
    x_square_plus_one,
    x_plus_one_square,
    encrypted_result,
    decrypted_result,
    cout,                \* what was printed: a sequence of <<label, value>>
    \* ---- a caller of the library (EvalSpec)
    reg,                 \* the caller's ciphertext variables
    last,                \* the last library call: operands, result, status
    steps                \* number of calls made

vars == <<parms, relin_keys, pc, x, plain_x, encrypted_x, decrypted_x,
          x_square_plus_one, x_plus_one_square, encrypted_result,
          decrypted_result, cout, reg, last, steps>>

exampleVars == <<pc, x, plain_x, encrypted_x, decrypted_x, x_square_plus_one,
                 x_plus_one_square, encrypted_result, decrypted_result, cout>>

evalVars == <<reg, last, steps>>

----------------------------------------------------------------------------
(* Bounds of the model *)

MaxSteps == 4            \* library calls a caller makes in EvalSpec
NumRegs == 2             \* ciphertext variables of the caller in EvalSpec
MaxRelinKeys == 2        \* largest count passed to KeyGenerator::relin_keys
MaxSize == 5             \* largest ciphertext size the caller builds

----------------------------------------------------------------------------
(* Encryption parameters *)

PlainModulus == 256

\* plain_modulus as set in the example, and a smaller power of two a user
\* may set instead to see its effect on noise budget consumption
PlainModuli == {4, PlainModulus}

\* bit sizes of the prime factors of the default coefficient modulus
DefaultCoeffModulusBits == <<36, 36, 37>>

\* KeyGenerator::relin_keys() without a count creates a single key
DefaultRelinKeyCount == 1

\* the values of x the example is run on
XValues == {1, 6, 12}

\* plaintext constants handed to add_plain / multiply_plain by a caller
PlainValues == {1, 2}

Max(a, b) == IF a >= b THEN a ELSE b

RECURSIVE SumSeq(_)
SumSeq(s) == IF s = <<>> THEN 0 ELSE Head(s) + SumSeq(Tail(s))

RECURSIVE Log2(_)
Log2(n) == IF n <= 1 THEN 0 ELSE 1 + Log2(n \div 2)

\* coeff_modulus_128(poly_modulus_degree, coeff_modulus_count): the first
\* count primes of the default list
CoeffModulus(count) == SubSeq(DefaultCoeffModulusBits, 1, count)

Contexts ==
    { [coeff_modulus |-> CoeffModulus(n), plain_modulus |-> t] :
        n \in 1..Len(DefaultCoeffModulusBits), t \in PlainModuli }

ExampleContext ==
    [coeff_modulus |-> DefaultCoeffModulusBits, plain_modulus |-> PlainModulus]

CoeffModulusBitCount == SumSeq(parms.coeff_modulus)

PlainModulusBitCount == Log2(parms.plain_modulus)

----------------------------------------------------------------------------
(* Plaintext *)

\* std::to_string(x), then Plaintext's constructor reading the digits as one
\* hexadecimal coefficient
RECURSIVE PlaintextOfDecimal(_)
PlaintextOfDecimal(n) ==
    IF n < 10 THEN n ELSE 16 * PlaintextOfDecimal(n \div 10) + (n % 10)

\* Plaintext::to_string(): the constant coefficient in hexadecimal, most
\* significant digit first (digits 10..15 stand for A..F)
RECURSIVE HexDigits(_)
HexDigits(n) ==
    IF n < 16 THEN <<n>> ELSE Append(HexDigits(n \div 16), n % 16)

----------------------------------------------------------------------------
(* Ciphertext and its noise *)

\* Ciphertext(): a default constructed ciphertext holds no polynomial
EmptyCiphertext == [size |-> 0, msg |-> 0, noise |-> 0, err |-> 0]

\* (mutant) a fresh ciphertext of a single polynomial
FreshSizeOne == Len(<<"c0">>)

\* size of a freshly encrypted ciphertext
FreshSize == 2

\* The library's noise figures are not in the example; the four below are
\* chosen so that the example's own account of its run holds for its
\* parameters: plenty of budget in a fresh ciphertext, a multiplication
\* consuming a lot of it, budget 0 at the end of the run without
\* relinearization and budget left at the end of the run with it.

\* bits of noise in a freshly encrypted ciphertext: its budget is
\* ~ log2(coeff_modulus / plain_modulus)
FreshNoise == 19

\* bits of noise a homomorphic addition adds to the larger operand's
AddNoise == 1

\* bits of noise a multiplication adds per pair of secret-key powers of its
\* operands, on top of log2(plain_modulus)
SizeNoise == 16

\* (mutant) relinearization as noisy as the whole coefficient modulus
RelinNoiseHeavy == SumSeq(DefaultCoeffModulusBits)

\* bits of noise one relinearization adds
RelinNoise == 1

\* (mutant) the headroom reported without the floor at 0
NoiseBudgetOfUnclamped(noise) ==
    CoeffModulusBitCount - PlainModulusBitCount - noise

NoiseBudgetOf(noise) ==
    Max(0, CoeffModulusBitCount - PlainModulusBitCount - noise)

\* Decryptor::invariant_noise_budget
NoiseBudget(c) == NoiseBudgetOf(c.noise)

\* (mutant) decryption may err whatever the noise budget
OutcomesUnreliable(size, msg, noise) ==
    { [size |-> size, msg |-> msg, noise |-> noise, err |-> e] : e \in {0, 1} }

\* the ciphertexts an operation can produce for a given size, value and
\* noise: decryption is exact while budget is left, and yields whatever the
\* arithmetic gives once it is exhausted
Outcomes(size, msg, noise) ==
    { [size |-> size, msg |-> msg, noise |-> noise, err |-> e] :
        e \in IF NoiseBudgetOf(noise) > 0 THEN {0} ELSE {0, 1} }

\* Decryptor::decrypt: always returns a plaintext
Decrypt(c) == (c.msg + c.err) % parms.plain_modulus

\* a plaintext is valid for the parameters when its coefficient is below
\* plain_modulus
ValidPlaintext(plain) == plain \in 0..(parms.plain_modulus - 1)

\* Encryptor::encrypt
Encrypt(plain) == Outcomes(FreshSize, plain, FreshNoise)

----------------------------------------------------------------------------
(* Evaluator *)

\* (mutant) the sizes added up
MultiplySizeSum(M, N) == M + N

\* size of a product of ciphertexts of sizes M and N
MultiplySize(M, N) == M + N - 1

\* (mutant) one key too many asked for
RelinKeysNeededOffByOne(M) == M - 1

\* relinearization keys needed to bring a ciphertext of size M back to 2
RelinKeysNeeded(M) == M - 2

\* (mutant) a multiplication that consumes no noise budget
MultiplyNoiseKept(a, b) == Max(a.noise, b.noise)

\* noise of a product: log2(plain_modulus) + (other terms); the other terms
\* grow with the sizes of the operands
MultiplyNoise(a, b) ==
    Max(a.noise, b.noise) + PlainModulusBitCount
        + SizeNoise * (a.size - 1) * (b.size - 1)

Add(a, b) ==
    Outcomes(Max(a.size, b.size),
             (a.msg + b.msg) % parms.plain_modulus,
             Max(a.noise, b.noise) + AddNoise)

AddPlain(a, plain) ==
    Outcomes(a.size, (a.msg + plain) % parms.plain_modulus, a.noise)

Multiply(a, b) ==
    Outcomes(MultiplySize(a.size, b.size),
             (a.msg * b.msg) % parms.plain_modulus,
             MultiplyNoise(a, b))

\* size of the square of a ciphertext of size M
SquareSize(M) == 2 * M - 1

\* the specialization of multiply(a, a)
Square(a) ==
    Outcomes(SquareSize(a.size),
             (a.msg * a.msg) % parms.plain_modulus,
             MultiplyNoise(a, a))

\* (mutant) the plaintext multiplied in as if it were a fresh ciphertext
MultiplyPlainAsMultiply(a, plain) ==
    Outcomes(MultiplySize(a.size, FreshSize),
             (a.msg * plain) % parms.plain_modulus,
             a.noise + PlainModulusBitCount)

MultiplyPlain(a, plain) ==
    Outcomes(a.size, (a.msg * plain) % parms.plain_modulus,
             a.noise + PlainModulusBitCount)

\* relinearize throws when the ciphertext needs more keys than were generated
RelinearizeThrows(a, keys) == RelinKeysNeeded(a.size) > keys

\* (mutant) relinearization stopping one polynomial early
RelinearizedSizeKept == Len(<<"c0", "c1", "c2">>)

\* size after relinearization
RelinearizedSize == 2

Relinearize(a, keys) ==
    IF a.size <= RelinearizedSize
    THEN {a}
    ELSE Outcomes(RelinearizedSize, a.msg, a.noise + RelinNoise)

----------------------------------------------------------------------------
(* example_basic_bfv, statement by statement *)

Emit(label, value) == Append(cout, <<label, value>>)

Emit2(l1, v1, l2, v2) == Append(Append(cout, <<l1, v1>>), <<l2, v2>>)

\* the values printed under a label, in the order they were printed
RECURSIVE Printed(_, _)
Printed(out, label) ==
    IF out = <<>> THEN <<>>
    ELSE IF Head(out)[1] = label
         THEN <<Head(out)[2]>> \o Printed(Tail(out), label)
         ELSE Printed(Tail(out), label)

plain_one == PlaintextOfDecimal(1)

plain_two == PlaintextOfDecimal(2)

Init ==
    /\ parms \in Contexts
    /\ relin_keys = 0
    /\ pc = "express_x"
    /\ x \in {v \in XValues : ValidPlaintext(PlaintextOfDecimal(v))}
    /\ plain_x = 0
    /\ encrypted_x = EmptyCiphertext
    /\ decrypted_x = 0
    /\ x_square_plus_one = EmptyCiphertext
    /\ x_plus_one_square = EmptyCiphertext
    /\ encrypted_result = EmptyCiphertext
    /\ decrypted_result = 0
    /\ cout = <<>>
    /\ reg = [i \in 1..NumRegs |-> EmptyCiphertext]
    /\ last = [op |-> "none"]
    /\ steps = 0

ExpressX ==
    /\ pc = "express_x"
    /\ plain_x' = PlaintextOfDecimal(x)
    /\ cout' = Emit("plain_x", HexDigits(plain_x'))
    /\ pc' = "encrypt_x"
    /\ UNCHANGED <<parms, relin_keys, x, encrypted_x, decrypted_x,
                   x_square_plus_one, x_plus_one_square, encrypted_result,
                   decrypted_result, evalVars>>

EncryptX ==
    /\ pc = "encrypt_x"
    /\ \E c \in Encrypt(plain_x) :
        /\ encrypted_x' = c
        /\ cout' = Emit2("Size of freshly encrypted x", c.size,
                         "Noise budget in freshly encrypted x", NoiseBudget(c))
    /\ pc' = "decrypt_x"
    /\ UNCHANGED <<parms, relin_keys, x, plain_x, decrypted_x,
                   x_square_plus_one, x_plus_one_square, encrypted_result,
                   decrypted_result, evalVars>>

\* (mutant) the decryption reading the wrong ciphertext variable
DecryptXWrongVariable ==
    /\ pc = "decrypt_x"
    /\ decrypted_x' = Decrypt(x_square_plus_one)
    /\ cout' = Emit("decrypted_x", HexDigits(decrypted_x'))
    /\ pc' = "square_x"
    /\ UNCHANGED <<parms, relin_keys, x, plain_x, encrypted_x,
                   x_square_plus_one, x_plus_one_square, encrypted_result,
                   decrypted_result, evalVars>>

DecryptX ==
    /\ pc = "decrypt_x"
    /\ decrypted_x' = Decrypt(encrypted_x)
    /\ cout' = Emit("decrypted_x", HexDigits(decrypted_x'))
    /\ pc' = "square_x"
    /\ UNCHANGED <<parms, relin_keys, x, plain_x, encrypted_x,
                   x_square_plus_one, x_plus_one_square, encrypted_result,
                   decrypted_result, evalVars>>

\* (mutant) square_inplace on encrypted_x itself, the result then copied
SquareXInPlace ==
    /\ pc = "square_x"
    /\ \E c \in Square(encrypted_x) :
        /\ encrypted_x' = c
        /\ x_square_plus_one' = c
    /\ pc' = "add_plain_one"
    /\ UNCHANGED <<parms, relin_keys, x, plain_x, decrypted_x,
                   x_plus_one_square, encrypted_result, decrypted_result,
                   cout, evalVars>>

SquareX ==
    /\ pc = "square_x"
    /\ \E c \in Square(encrypted_x) : x_square_plus_one' = c
    /\ pc' = "add_plain_one"
    /\ UNCHANGED <<parms, relin_keys, x, plain_x, encrypted_x, decrypted_x,
                   x_plus_one_square, encrypted_result, decrypted_result,
                   cout, evalVars>>

AddPlainOne ==
    /\ pc = "add_plain_one"
    /\ \E c \in AddPlain(x_square_plus_one, plain_one) :
        /\ x_square_plus_one' = c
        /\ cout' = Emit2("Size of x^2+1", c.size,
                         "Noise budget in x^2+1", NoiseBudget(c))
    /\ pc' = "decrypt_x_square_plus_one"
    /\ UNCHANGED <<parms, relin_keys, x, plain_x, encrypted_x, decrypted_x,
                   x_plus_one_square, encrypted_result, decrypted_result,
                   evalVars>>

DecryptXSquarePlusOne ==
    /\ pc = "decrypt_x_square_plus_one"
    /\ decrypted_result' = Decrypt(x_square_plus_one)
    /\ cout' = Emit("x^2+1", HexDigits(decrypted_result'))
    /\ pc' = "add_plain_x"
    /\ UNCHANGED <<parms, relin_keys, x, plain_x, encrypted_x, decrypted_x,
                   x_square_plus_one, x_plus_one_square, encrypted_result,
                   evalVars>>

AddPlainX ==
    /\ pc = "add_plain_x"
    /\ \E c \in AddPlain(encrypted_x, plain_one) : x_plus_one_square' = c
    /\ pc' = "square_x_plus_one"
    /\ UNCHANGED <<parms, relin_keys, x, plain_x, encrypted_x, decrypted_x,
                   x_square_plus_one, encrypted_result, decrypted_result,
                   cout, evalVars>>

SquareXPlusOne ==
    /\ pc = "square_x_plus_one"
    /\ \E c \in Square(x_plus_one_square) :
        /\ x_plus_one_square' = c
        /\ cout' = Emit2("Size of (x+1)^2", c.size,
                         "Noise budget in (x+1)^2", NoiseBudget(c))
    /\ pc' = "decrypt_x_plus_one_square"
    /\ UNCHANGED <<parms, relin_keys, x, plain_x, encrypted_x, decrypted_x,
                   x_square_plus_one, encrypted_result, decrypted_result,
                   evalVars>>

DecryptXPlusOneSquare ==
    /\ pc = "decrypt_x_plus_one_square"
    /\ decrypted_result' = Decrypt(x_plus_one_square)
    /\ cout' = Emit("(x+1)^2", HexDigits(decrypted_result'))
    /\ pc' = "multiply"
    /\ UNCHANGED <<parms, relin_keys, x, plain_x, encrypted_x, decrypted_x,
                   x_square_plus_one, x_plus_one_square, encrypted_result,
                   evalVars>>

MultiplyBoth ==
    /\ pc = "multiply"
    /\ \E c \in Multiply(x_square_plus_one, x_plus_one_square) :
        encrypted_result' = c
    /\ pc' = "multiply_plain_two"
    /\ UNCHANGED <<parms, relin_keys, x, plain_x, encrypted_x, decrypted_x,
                   x_square_plus_one, x_plus_one_square, decrypted_result,
                   cout, evalVars>>

MultiplyPlainTwo ==
    /\ pc = "multiply_plain_two"
    /\ \E c \in MultiplyPlain(encrypted_result, plain_two) :
        /\ encrypted_result' = c
        /\ cout' = Emit2("Size of 2(x^2+1)(x+1)^2", c.size,
                         "Noise budget in 2(x^2+1)(x+1)^2", NoiseBudget(c))
    /\ pc' = "relin_keys"
    /\ UNCHANGED <<parms, relin_keys, x, plain_x, encrypted_x, decrypted_x,
                   x_square_plus_one, x_plus_one_square, decrypted_result,
                   evalVars>>

GenerateRelinKeys ==
    /\ pc = "relin_keys"
    /\ relin_keys' = DefaultRelinKeyCount
    /\ pc' = "r_square_x"
    /\ UNCHANGED <<parms, x, plain_x, encrypted_x, decrypted_x,
                   x_square_plus_one, x_plus_one_square, encrypted_result,
                   decrypted_result, cout, evalVars>>

\* ---- the same computation, relinearizing after every multiplication

SquareXAgain ==
    /\ pc = "r_square_x"
    /\ \E c \in Square(encrypted_x) :
        /\ x_square_plus_one' = c
        /\ cout' = Emit("Size of x^2", c.size)
    /\ pc' = "r_relin_x_square"
    /\ UNCHANGED <<parms, relin_keys, x, plain_x, encrypted_x, decrypted_x,
                   x_plus_one_square, encrypted_result, decrypted_result,
                   evalVars>>

RelinearizeXSquare ==
    /\ pc = "r_relin_x_square"
    /\ IF RelinearizeThrows(x_square_plus_one, relin_keys)
       THEN /\ pc' = "threw"
            /\ UNCHANGED <<x_square_plus_one, cout>>
       ELSE /\ \E c \in Relinearize(x_square_plus_one, relin_keys) :
                /\ x_square_plus_one' = c
                /\ cout' = Emit("Size of x^2 (after relinearization)", c.size)
            /\ pc' = "r_add_plain_one"
    /\ UNCHANGED <<parms, relin_keys, x, plain_x, encrypted_x, decrypted_x,
                   x_plus_one_square, encrypted_result, decrypted_result,
                   evalVars>>

AddPlainOneAgain ==
    /\ pc = "r_add_plain_one"
    /\ \E c \in AddPlain(x_square_plus_one, plain_one) :
        /\ x_square_plus_one' = c
        /\ cout' = Emit("Noise budget in x^2+1", NoiseBudget(c))
    /\ pc' = "r_add_plain_x"
    /\ UNCHANGED <<parms, relin_keys, x, plain_x, encrypted_x, decrypted_x,
                   x_plus_one_square, encrypted_result, decrypted_result,
                   evalVars>>

\* (mutant) add_plain_inplace on the first run's (x+1)^2 instead of a new x+1
AddPlainXAgainStale ==
    /\ pc = "r_add_plain_x"
    /\ \E c \in AddPlain(x_plus_one_square, plain_one) : x_plus_one_square' = c
    /\ pc' = "r_square_x_plus_one"
    /\ UNCHANGED <<parms, relin_keys, x, plain_x, encrypted_x, decrypted_x,
                   x_square_plus_one, encrypted_result, decrypted_result,
                   cout, evalVars>>

AddPlainXAgain ==
    /\ pc = "r_add_plain_x"
    /\ \E c \in AddPlain(encrypted_x, plain_one) : x_plus_one_square' = c
    /\ pc' = "r_square_x_plus_one"
    /\ UNCHANGED <<parms, relin_keys, x, plain_x, encrypted_x, decrypted_x,
                   x_square_plus_one, encrypted_result, decrypted_result,
                   cout, evalVars>>

SquareXPlusOneAgain ==
    /\ pc = "r_square_x_plus_one"
    /\ \E c \in Square(x_plus_one_square) :
        /\ x_plus_one_square' = c
        /\ cout' = Emit("Size of (x+1)^2", c.size)
    /\ pc' = "r_relin_x_plus_one_square"
    /\ UNCHANGED <<parms, relin_keys, x, plain_x, encrypted_x, decrypted_x,
                   x_square_plus_one, encrypted_result, decrypted_result,
                   evalVars>>

RelinearizeXPlusOneSquare ==
    /\ pc = "r_relin_x_plus_one_square"
    /\ IF RelinearizeThrows(x_plus_one_square, relin_keys)
       THEN /\ pc' = "threw"
            /\ UNCHANGED <<x_plus_one_square, cout>>
       ELSE /\ \E c \in Relinearize(x_plus_one_square, relin_keys) :
                /\ x_plus_one_square' = c
                /\ cout' = Emit2("Size of (x+1)^2 (after relinearization)",
                                 c.size,
                                 "Noise budget in (x+1)^2", NoiseBudget(c))
            /\ pc' = "r_multiply"
    /\ UNCHANGED <<parms, relin_keys, x, plain_x, encrypted_x, decrypted_x,
                   x_square_plus_one, encrypted_result, decrypted_result,
                   evalVars>>

MultiplyBothAgain ==
    /\ pc = "r_multiply"
    /\ \E c \in Multiply(x_square_plus_one, x_plus_one_square) :
        /\ encrypted_result' = c
        /\ cout' = Emit("Size of (x^2+1)(x+1)^2", c.size)
    /\ pc' = "r_relin_result"
    /\ UNCHANGED <<parms, relin_keys, x, plain_x, encrypted_x, decrypted_x,
                   x_square_plus_one, x_plus_one_square, decrypted_result,
                   evalVars>>

RelinearizeResult ==
    /\ pc = "r_relin_result"
    /\ IF RelinearizeThrows(encrypted_result, relin_keys)
       THEN /\ pc' = "threw"
            /\ UNCHANGED <<encrypted_result, cout>>
       ELSE /\ \E c \in Relinearize(encrypted_result, relin_keys) :
                /\ encrypted_result' = c
                /\ cout' = Emit("Size of (x^2+1)(x+1)^2 (after relinearization)",
                                c.size)
            /\ pc' = "r_multiply_plain_two"
    /\ UNCHANGED <<parms, relin_keys, x, plain_x, encrypted_x, decrypted_x,
                   x_square_plus_one, x_plus_one_square, decrypted_result,
                   evalVars>>

MultiplyPlainTwoAgain ==
    /\ pc = "r_multiply_plain_two"
    /\ \E c \in MultiplyPlain(encrypted_result, plain_two) :
        /\ encrypted_result' = c
        /\ cout' = Emit("Noise budget in 2(x^2+1)(x+1)^2", NoiseBudget(c))
    /\ pc' = "r_decrypt_result"
    /\ UNCHANGED <<parms, relin_keys, x, plain_x, encrypted_x, decrypted_x,
                   x_square_plus_one, x_plus_one_square, decrypted_result,
                   evalVars>>

DecryptResult ==
    /\ pc = "r_decrypt_result"
    /\ decrypted_result' = Decrypt(encrypted_result)
    /\ cout' = Emit("2(x^2+1)(x+1)^2", HexDigits(decrypted_result'))
    /\ pc' = "done"
    /\ UNCHANGED <<parms, relin_keys, x, plain_x, encrypted_x, decrypted_x,
                   x_square_plus_one, x_plus_one_square, encrypted_result,
                   evalVars>>

Next ==
    \/ ExpressX
    \/ EncryptX
    \/ DecryptX
    \/ SquareX
    \/ AddPlainOne
    \/ DecryptXSquarePlusOne
    \/ AddPlainX
    \/ SquareXPlusOne
    \/ DecryptXPlusOneSquare
    \/ MultiplyBoth
    \/ MultiplyPlainTwo
    \/ GenerateRelinKeys
    \/ SquareXAgain
    \/ RelinearizeXSquare
    \/ AddPlainOneAgain
    \/ AddPlainXAgain
    \/ SquareXPlusOneAgain
    \/ RelinearizeXPlusOneSquare
    \/ MultiplyBothAgain
    \/ RelinearizeResult
    \/ MultiplyPlainTwoAgain
    \/ DecryptResult

Spec == Init /\ [][Next]_vars

\* ---- the arguments of the library call made by each statement

\* the variables a statement's library call is given to read
Operands(p) ==
    CASE p = "encrypt_x" -> {"plain_x"}
      [] p \in {"decrypt_x", "square_x", "add_plain_x", "r_square_x",
                "r_add_plain_x"} -> {"encrypted_x"}
      [] p \in {"add_plain_one", "decrypt_x_square_plus_one",
                "r_add_plain_one"} -> {"x_square_plus_one"}
      [] p \in {"square_x_plus_one", "decrypt_x_plus_one_square",
                "r_square_x_plus_one"} -> {"x_plus_one_square"}
      [] p \in {"multiply", "r_multiply"} ->
            {"x_square_plus_one", "x_plus_one_square"}
      [] p \in {"multiply_plain_two", "r_multiply_plain_two",
                "r_decrypt_result"} -> {"encrypted_result"}
      [] p = "r_relin_x_square" -> {"x_square_plus_one", "relin_keys"}
      [] p = "r_relin_x_plus_one_square" -> {"x_plus_one_square", "relin_keys"}
      [] p = "r_relin_result" -> {"encrypted_result", "relin_keys"}
      [] OTHER -> {}

\* the operand an _inplace call also stores its result in
InPlace(p) ==
    CASE p \in {"add_plain_one", "r_add_plain_one", "r_relin_x_square"} ->
            {"x_square_plus_one"}
      [] p \in {"square_x_plus_one", "r_square_x_plus_one",
                "r_relin_x_plus_one_square"} -> {"x_plus_one_square"}
      [] p \in {"multiply_plain_two", "r_relin_result",
                "r_multiply_plain_two"} -> {"encrypted_result"}
      [] OTHER -> {}

ValueOf(name) ==
    CASE name = "plain_x" -> plain_x
      [] name = "encrypted_x" -> encrypted_x
      [] name = "x_square_plus_one" -> x_square_plus_one
      [] name = "x_plus_one_square" -> x_plus_one_square
      [] name = "encrypted_result" -> encrypted_result
      [] name = "relin_keys" -> relin_keys

----------------------------------------------------------------------------
(* A caller of the library: any operation on any of its ciphertexts *)

\* the plaintexts the caller encrypts
EvalPlaintexts == {3, 255}

Regs == 1..NumRegs

Call(op, a, b, plain, out, status) ==
    [op |-> op, a |-> a, b |-> b, plain |-> plain, out |-> out,
     status |-> status]

NoCall == Call("none", EmptyCiphertext, EmptyCiphertext, 0, EmptyCiphertext, "ok")

Valid(c) == c.size > 0

EvalInit ==
    /\ parms \in Contexts
    /\ relin_keys \in 1..MaxRelinKeys
    /\ pc = "caller"
    /\ x = 0
    /\ plain_x = 0
    /\ encrypted_x = EmptyCiphertext
    /\ decrypted_x = 0
    /\ x_square_plus_one = EmptyCiphertext
    /\ x_plus_one_square = EmptyCiphertext
    /\ encrypted_result = EmptyCiphertext
    /\ decrypted_result = 0
    /\ cout = <<>>
    /\ reg = [i \in Regs |-> EmptyCiphertext]
    /\ last = NoCall
    /\ steps = 0

Returns(d, op, a, b, plain, c) ==
    /\ reg' = [reg EXCEPT ![d] = c]
    /\ last' = Call(op, a, b, plain, c, "ok")
    /\ steps' = steps + 1
    /\ UNCHANGED <<parms, relin_keys, exampleVars>>

EvalEncrypt ==
    /\ steps < MaxSteps
    /\ \E d \in Regs, p \in {v \in EvalPlaintexts : ValidPlaintext(v)} :
        \E c \in Encrypt(p) :
            Returns(d, "encrypt", EmptyCiphertext, EmptyCiphertext, p, c)

EvalAdd ==
    /\ steps < MaxSteps
    /\ \E d \in Regs, i \in Regs, j \in Regs :
        /\ Valid(reg[i]) /\ Valid(reg[j])
        /\ \E c \in Add(reg[i], reg[j]) :
            Returns(d, "add", reg[i], reg[j], 0, c)

EvalAddPlain ==
    /\ steps < MaxSteps
    /\ \E d \in Regs, i \in Regs, p \in PlainValues :
        /\ Valid(reg[i])
        /\ \E c \in AddPlain(reg[i], p) :
            Returns(d, "add_plain", reg[i], EmptyCiphertext, p, c)

EvalMultiply ==
    /\ steps < MaxSteps
    /\ \E d \in Regs, i \in Regs, j \in Regs :
        /\ Valid(reg[i]) /\ Valid(reg[j])
        /\ MultiplySize(reg[i].size, reg[j].size) <= MaxSize
        /\ \E c \in Multiply(reg[i], reg[j]) :
            Returns(d, "multiply", reg[i], reg[j], 0, c)

EvalSquare ==
    /\ steps < MaxSteps
    /\ \E d \in Regs, i \in Regs :
        /\ Valid(reg[i])
        /\ SquareSize(reg[i].size) <= MaxSize
        /\ \E c \in Square(reg[i]) :
            Returns(d, "square", reg[i], EmptyCiphertext, 0, c)

EvalMultiplyPlain ==
    /\ steps < MaxSteps
    /\ \E d \in Regs, i \in Regs, p \in PlainValues :
        /\ Valid(reg[i])
        /\ \E c \in MultiplyPlain(reg[i], p) :
            Returns(d, "multiply_plain", reg[i], EmptyCiphertext, p, c)

EvalRelinearize ==
    /\ steps < MaxSteps
    /\ \E d \in Regs, i \in Regs :
        /\ Valid(reg[i])
        /\ IF RelinearizeThrows(reg[i], relin_keys)
           THEN /\ last' = Call("relinearize", reg[i], EmptyCiphertext, 0,
                                EmptyCiphertext, "InsufficientRelinKeys")
                /\ steps' = steps + 1
                /\ UNCHANGED <<reg, parms, relin_keys, exampleVars>>
           ELSE \E c \in Relinearize(reg[i], relin_keys) :
                    Returns(d, "relinearize", reg[i], EmptyCiphertext, 0, c)

EvalDecrypt ==
    /\ steps < MaxSteps
    /\ \E i \in Regs :
        /\ Valid(reg[i])
        /\ last' = Call("decrypt", reg[i], EmptyCiphertext,
                        Decrypt(reg[i]), EmptyCiphertext, "ok")
        /\ steps' = steps + 1
        /\ UNCHANGED <<reg, parms, relin_keys, exampleVars>>

EvalNext ==
    \/ EvalEncrypt
    \/ EvalAdd
    \/ EvalAddPlain
    \/ EvalMultiply
    \/ EvalSquare
    \/ EvalMultiplyPlain
    \/ EvalRelinearize
    \/ EvalDecrypt

EvalSpec == EvalInit /\ [][EvalNext]_vars

----------------------------------------------------------------------------
(* A caller that relinearizes every product at once, as the second run of
   example_basic_bfv does with relinearize_inplace *)

\* the last call returned a product that has not been relinearized yet
Pending == last.op \in {"multiply", "square"}

RelinEncrypt == ~Pending /\ EvalEncrypt

RelinAdd == ~Pending /\ EvalAdd

RelinAddPlain == ~Pending /\ EvalAddPlain

RelinMultiply == ~Pending /\ EvalMultiply

RelinSquare == ~Pending /\ EvalSquare

RelinMultiplyPlain == ~Pending /\ EvalMultiplyPlain

RelinDecrypt == ~Pending /\ EvalDecrypt

\* (mutant) the relinearized product stored elsewhere, the product kept
RelinearizeProductElsewhere ==
    /\ Pending
    /\ steps < MaxSteps
    /\ \E i \in Regs, d \in Regs :
        /\ d # i
        /\ reg[i] = last.out
        /\ IF RelinearizeThrows(reg[i], relin_keys)
           THEN /\ last' = Call("relinearize", reg[i], EmptyCiphertext, 0,
                                EmptyCiphertext, "InsufficientRelinKeys")
                /\ steps' = steps + 1
                /\ UNCHANGED <<reg, parms, relin_keys, exampleVars>>
           ELSE \E c \in Relinearize(reg[i], relin_keys) :
                    Returns(d, "relinearize", reg[i], EmptyCiphertext, 0, c)

\* relinearize_inplace on the product just returned
RelinearizeProduct ==
    /\ Pending
    /\ steps < MaxSteps
    /\ \E i \in Regs :
        /\ reg[i] = last.out
        /\ IF RelinearizeThrows(reg[i], relin_keys)
           THEN /\ last' = Call("relinearize", reg[i], EmptyCiphertext, 0,
                                EmptyCiphertext, "InsufficientRelinKeys")
                /\ steps' = steps + 1
                /\ UNCHANGED <<reg, parms, relin_keys, exampleVars>>
           ELSE \E c \in Relinearize(reg[i], relin_keys) :
                    Returns(i, "relinearize", reg[i], EmptyCiphertext, 0, c)

RelinNext ==
    \/ RelinEncrypt
    \/ RelinAdd
    \/ RelinAddPlain
    \/ RelinMultiply
    \/ RelinSquare
    \/ RelinMultiplyPlain
    \/ RelinDecrypt
    \/ RelinearizeProduct

RelinSpec == EvalInit /\ [][RelinNext]_vars

----------------------------------------------------------------------------
(* Properties *)

\* the two noise budgets printed for 2(x^2+1)(x+1)^2: without
\* relinearization, then with it
FinalBudgets == Printed(cout, "Noise budget in 2(x^2+1)(x+1)^2")

Homomorphic == {"add", "add_plain", "multiply", "square", "multiply_plain",
                "relinearize"}

\* C1: round trip.  Once encrypted_x has been decrypted, decrypted_x is the
\* plaintext plain_x that was encrypted (and is printed as such) whenever the
\* noise budget of the fresh ciphertext is greater than zero.
C1_RoundTrip ==
    (/\ pc \notin {"express_x", "encrypt_x", "decrypt_x"}
     /\ NoiseBudget(encrypted_x) > 0)
    => /\ decrypted_x = plain_x
       /\ Printed(cout, "decrypted_x") = <<HexDigits(plain_x)>>

\* x = 12 is encrypted as the plaintext 0x12 = 18 and decrypted as 18
C1_Witness ==
    /\ pc = "square_x"
    /\ NoiseBudget(encrypted_x) > 0
    /\ x = 12 /\ plain_x = 18 /\ decrypted_x = 18

\* C2: homomorphism.  The sum (product) of two ciphertexts that decrypt to x
\* and y decrypts to (x+y) mod T ((x*y) mod T), provided the noise budget of
\* the result is greater than zero.
C2_Homomorphism ==
    /\ (last.op = "add" /\ NoiseBudget(last.out) > 0)
        => Decrypt(last.out)
             = (Decrypt(last.a) + Decrypt(last.b)) % parms.plain_modulus
    /\ (last.op = "multiply" /\ NoiseBudget(last.out) > 0)
        => Decrypt(last.out)
             = (Decrypt(last.a) * Decrypt(last.b)) % parms.plain_modulus

\* 255 * 3 = 765 = 253 mod 256, with noise budget left
C2_Witness ==
    /\ last.op = "multiply"
    /\ NoiseBudget(last.out) > 0
    /\ Decrypt(last.a) = 255 /\ Decrypt(last.b) = 3
    /\ Decrypt(last.out) = 253

\* C3: the concrete scenario.  With plain_modulus 256, the default
\* coefficient modulus and x = 6, the relinearized computation never throws
\* and ends with a noise budget greater than zero and the result 42 = 0x2A.
C3_Scenario ==
    (parms = ExampleContext /\ x = 6)
    => /\ pc # "threw"
       /\ pc = "done"
            => /\ decrypted_result = 42
               /\ cout[Len(cout)] = <<"2(x^2+1)(x+1)^2", <<2, 10>>>>
               /\ NoiseBudget(encrypted_result) > 0
               /\ FinalBudgets[2] > 0

C3_Witness ==
    /\ parms = ExampleContext /\ x = 6
    /\ pc = "done"
    /\ decrypted_result = 42
    /\ NoiseBudget(encrypted_result) > 0

\* C4 as stated: relinearizing a ciphertext of size > 2 with enough keys
\* gives size 2 and the same decryption, whatever the noise.
C4_AsStated ==
    (/\ last.op = "relinearize"
     /\ last.a.size > 2
     /\ relin_keys >= last.a.size - 2)
    => /\ last.status = "ok"
       /\ last.out.size = 2
       /\ Decrypt(last.out) = Decrypt(last.a)

\* C4 (amended): relinearizing a ciphertext of size > 2 with enough keys
\* succeeds and gives size exactly 2; the decryption is the same whenever
\* the relinearized ciphertext has noise budget left.
C4_Relinearize ==
    (/\ last.op = "relinearize"
     /\ last.a.size > 2
     /\ relin_keys >= last.a.size - 2)
    => /\ last.status = "ok"
       /\ last.out.size = 2
       /\ NoiseBudget(last.out) > 0 => Decrypt(last.out) = Decrypt(last.a)

\* a size 4 ciphertext relinearized with two keys, budget left
C4_Witness ==
    /\ last.op = "relinearize"
    /\ last.a.size = 4 /\ relin_keys = 2
    /\ last.out.size = 2
    /\ NoiseBudget(last.out) > 0
    /\ Decrypt(last.out) = Decrypt(last.a)

\* C5: relinearize fails with InsufficientRelinKeys exactly when the
\* ciphertext's size - 2 exceeds the number of keys; a failed call produces
\* no ciphertext, and the same call on the same inputs fails again.
C5_InsufficientRelinKeys ==
    last.op = "relinearize"
    => /\ (last.status = "InsufficientRelinKeys")
            <=> (last.a.size - 2 > relin_keys)
       /\ last.status \in {"ok", "InsufficientRelinKeys"}
       /\ last.status = "InsufficientRelinKeys"
            => /\ last.out = EmptyCiphertext
               /\ RelinearizeThrows(last.a, relin_keys)

C5_Witness ==
    /\ last.op = "relinearize"
    /\ last.status = "InsufficientRelinKeys"
    /\ last.a.size = 4 /\ relin_keys = 1

\* C6: a product of ciphertexts of sizes M and N has size M + N - 1, and a
\* square has the size of multiply(a, a), 2M - 1.
C6_ProductSize ==
    /\ last.op = "multiply"
        => last.out.size = last.a.size + last.b.size - 1
    /\ last.op = "square"
        => /\ last.out.size = 2 * last.a.size - 1
           /\ \A c \in Multiply(last.a, last.a) : c.size = last.out.size

\* two unrelinearized size 3 ciphertexts multiplied into one of size 5
C6_Witness ==
    /\ last.op = "multiply"
    /\ last.a.size = 3 /\ last.b.size = 3
    /\ last.out.size = 5

\* C7: encrypt returns size exactly 2, and every ciphertext a caller holds
\* has size at least 2.
C7_SizeAtLeastTwo ==
    /\ last.op = "encrypt" => last.out.size = 2
    /\ \A i \in Regs : Valid(reg[i]) => reg[i].size >= 2
    /\ (last.op \in Homomorphic /\ last.status = "ok") => last.out.size >= 2

C7_Witness ==
    /\ last.op = "relinearize" /\ last.status = "ok"
    /\ last.a.size = 3 /\ last.out.size = 2
    /\ \E i \in Regs : reg[i].size = 3

\* C8 as stated: no Evaluator operation increases the noise budget, and
\* multiply, square and multiply_plain strictly decrease it.
C8_AsStated ==
    (last.op \in Homomorphic /\ last.status = "ok")
    => /\ NoiseBudget(last.out) <= NoiseBudget(last.a)
       /\ last.op \in {"add", "multiply"}
            => NoiseBudget(last.out) <= NoiseBudget(last.b)
       /\ last.op \in {"multiply", "square", "multiply_plain"}
            => NoiseBudget(last.out) < NoiseBudget(last.a)
       /\ last.op = "multiply"
            => NoiseBudget(last.out) < NoiseBudget(last.b)

\* C8 (amended): no Evaluator operation increases the noise budget, and
\* multiply, square and multiply_plain strictly decrease it unless it was
\* already 0, where it stays 0.
C8_MonotonicNoise ==
    (last.op \in Homomorphic /\ last.status = "ok")
    => /\ NoiseBudget(last.out) <= NoiseBudget(last.a)
       /\ last.op \in {"add", "multiply"}
            => NoiseBudget(last.out) <= NoiseBudget(last.b)
       /\ last.op \in {"multiply", "square", "multiply_plain"}
            => \/ NoiseBudget(last.out) < NoiseBudget(last.a)
               \/ NoiseBudget(last.a) = 0 /\ NoiseBudget(last.out) = 0
       /\ last.op = "multiply"
            => \/ NoiseBudget(last.out) < NoiseBudget(last.b)
               \/ NoiseBudget(last.b) = 0 /\ NoiseBudget(last.out) = 0

\* a multiplication of two ciphertexts with budget left that leaves budget
C8_Witness ==
    /\ last.op = "multiply"
    /\ NoiseBudget(last.out) > 0
    /\ NoiseBudget(last.out) < NoiseBudget(last.a)
    /\ NoiseBudget(last.out) < NoiseBudget(last.b)

\* C9: the noise budget of every ciphertext is a non-negative integer, and
\* decrypt returns a plaintext, never an error, also at budget 0.
C9_ExhaustionIsNoFailure ==
    /\ \A i \in Regs : Valid(reg[i]) => NoiseBudget(reg[i]) \in Nat
    /\ (last.op \in Homomorphic \cup {"encrypt"} /\ last.status = "ok")
        => NoiseBudget(last.out) \in Nat
    /\ last.op = "decrypt"
        => /\ last.status = "ok"
           /\ last.plain \in 0..(parms.plain_modulus - 1)

\* a decryption of a ciphertext with no noise budget left
C9_Witness ==
    /\ last.op = "decrypt"
    /\ NoiseBudget(last.a) = 0
    /\ last.a.noise > CoeffModulusBitCount - PlainModulusBitCount
    /\ last.status = "ok"

C11_AsStated ==
    [][\A n \in Operands(pc) : ValueOf(n)' = ValueOf(n)]_vars

\* C11 (amended): a call changes none of its operands except the one an
\* _inplace call stores its result in; encrypted_x is never that one, so once
\* encrypted it stays the same fresh encryption of plain_x (size 2, the fresh
\* noise budget, the same decrypted value) through both runs.
C11_OperandsKept ==
    [][/\ \A n \in Operands(pc) \ InPlace(pc) : ValueOf(n)' = ValueOf(n)
       /\ "encrypted_x" \notin InPlace(pc)
       /\ pc \notin {"express_x", "encrypt_x"} =>
            /\ encrypted_x' = encrypted_x
            /\ encrypted_x \in Encrypt(plain_x)
            /\ encrypted_x.size = FreshSize
            /\ NoiseBudget(encrypted_x) = NoiseBudgetOf(FreshNoise)]_vars

\* encrypted_x, already the source of square and add_plain in the first run,
\* has been the source of both again in the second run and is still fresh,
\* while x_square_plus_one was overwritten by its _inplace calls
C11_Witness ==
    /\ pc = "r_square_x_plus_one"
    /\ encrypted_x \in Encrypt(plain_x)
    /\ encrypted_x.size = 2
    /\ Decrypt(encrypted_x) = decrypted_x
    /\ x_plus_one_square.msg = (encrypted_x.msg + 1) % parms.plain_modulus
    /\ x_square_plus_one.msg # (encrypted_x.msg * encrypted_x.msg) % parms.plain_modulus

\* C12: size-preserving operations.  add_plain and multiply_plain return a
\* ciphertext of the size of their ciphertext operand, and add returns one of
\* the larger of its two operands' sizes.
C12_SizePreserved ==
    /\ last.op \in {"add_plain", "multiply_plain"}
        => last.out.size = last.a.size
    /\ last.op = "add"
        => /\ last.out.size >= last.a.size
           /\ last.out.size >= last.b.size
           /\ last.out.size \in {last.a.size, last.b.size}

\* a fresh ciphertext added to an unrelinearized square: size 3, not 2
C12_Witness ==
    /\ last.op = "add"
    /\ last.a.size = 2 /\ last.b.size = 3
    /\ last.out.size = 3
    /\ \E i \in Regs : reg[i] = last.out

\* C13: when every multiply or square is at once followed by relinearize
\* of the product, no ciphertext ever has size greater than 3 (and only the
\* product awaiting its relinearization has size 3), so relinearize never
\* fails with InsufficientRelinKeys, a key set of count 1 included.
C13_SizeAtMostThree ==
    /\ \A i \in Regs : reg[i].size <= 3
    /\ \A i \in Regs : reg[i].size = 3 => (Pending /\ reg[i] = last.out)
    /\ last.out.size <= 3
    /\ last.status # "InsufficientRelinKeys"
    /\ last.op = "relinearize"
        => /\ RelinKeysNeeded(last.a.size) <= DefaultRelinKeyCount
           /\ last.out.size = 2

\* with a single relinearization key: a relinearized square (size 2, no
\* longer fresh) multiplied again gives a product of size 3, not 5
C13_Witness ==
    /\ relin_keys = 1
    /\ last.op = "multiply"
    /\ last.a.size = 2 /\ last.a.noise > FreshNoise + AddNoise
    /\ last.b.size = 2
    /\ last.out.size = 3
    /\ \A i \in Regs : reg[i].size <= 3

====
